---- MODULE Spec2Model ----
(***************************************************************************)
(* Model of src/lidar.py: the SICK TiM561 ingestion thread.                *)
(*                                                                         *)
(* Bytes are integers 0..255; a bytes object is a sequence of them.        *)
(* A Python float x is represented by the integer 1000*x ("thousandths"):  *)
(* every float the program builds is n/1000 for an integer n, or the       *)
(* sentinel -1, so the representation is exact.                            *)
(***************************************************************************)
EXTENDS Integers, Sequences, FiniteSets, TLC

\* ------------------------------------------------------------------ bounds
MaxStream == 5        \* length of the byte streams fed to the frame extractor
MaxPending == 2       \* telegrams the sensor may have in flight on the socket
MaxSamples == 3       \* sample tokens present in a generated telegram
MaxToken == 3         \* length of the tokens passed to parse_number
MaxArray == 4         \* length of the arrays passed to clean_datagram_by_distance
AngleDen == 2         \* view angles are the multiples of 1/AngleDen degree

\* ------------------------------------------------- byte values of the source
STX == 2
ETX == 3
SP == 32
PLUS == 43
MINUS == 45

sSN == <<115, 83, 78>>
LMDscandata == <<76, 77, 68, 115, 99, 97, 110, 100, 97, 116, 97>>
sEA == <<115, 69, 65>>

None == [kind |-> "None"]

Min(a, b) == IF a < b THEN a ELSE b
Max(a, b) == IF a > b THEN a ELSE b

\* Eager(v, F) is F(v), with v evaluated once before F is applied.
Eager(v, F(_)) == CHOOSE r \in { F(x) : x \in { v } } : TRUE

\* ------------------------------------------------------------ Python helpers
\* s[lo:hi] on a list, with Python's treatment of negative and large bounds.
PySlice(s, lo, hi) ==
  LET n == Len(s)
      norm(i) == IF i < 0 THEN Max(i + n, 0) ELSE Min(i, n)
  IN IF norm(lo) < norm(hi) THEN SubSeq(s, norm(lo) + 1, norm(hi)) ELSE << >>

\* bytes.split(sep): always at least one item; adjacent separators give b''.
\* Item k runs from just after separator k-1 to just before separator k.
SplitAt(s, seps) ==
  LET n == Cardinality(seps)
      pos(k) == IF k = 0 THEN 0
                ELSE IF k = n + 1 THEN Len(s) + 1
                ELSE CHOOSE i \in seps : Cardinality({ j \in seps : j <= i }) = k
  IN [k \in 1..(n + 1) |-> SubSeq(s, pos(k - 1) + 1, pos(k) - 1)]

Split(s, sep) ==
  Eager({ i \in 1..Len(s) : s[i] = sep }, LAMBDA seps : SplitAt(s, seps))

\* Value of one digit byte in the given base, or -1.
DigitValue(b, base) ==
  LET v == IF b >= 48 /\ b <= 57 THEN b - 48
           ELSE IF b >= 65 /\ b <= 70 THEN b - 55
           ELSE IF b >= 97 /\ b <= 102 THEN b - 87
           ELSE -1
  IN IF v >= 0 /\ v < base THEN v ELSE -1

RECURSIVE DigitsValue(_, _, _, _)
DigitsValue(s, base, i, acc) ==
  IF i > Len(s) THEN acc
  ELSE DigitsValue(s, base, i + 1, acc * base + DigitValue(s[i], base))

\* bytes.strip(): the token without its leading and trailing ASCII whitespace.
IsSpace(b) == b \in { 9, 10, 11, 12, 13, SP }
Strip(tok) ==
  LET keep == { i \in 1..Len(tok) : ~IsSpace(tok[i]) }
  IN IF keep = {} THEN << >>
     ELSE SubSeq(tok, CHOOSE i \in keep : \A j \in keep : i <= j,
                      CHOOSE i \in keep : \A j \in keep : i >= j)

\* The literal int() converts once the surrounding whitespace is gone: an
\* optional sign, then one or more digits of the base; anything else is a
\* ValueError.
PyIntLiteral(tok, base) ==
  LET signed == Len(tok) > 0 /\ tok[1] \in {PLUS, MINUS}
      digits == IF signed THEN Tail(tok) ELSE tok
  IN IF Len(digits) = 0 \/ \E i \in 1..Len(digits) : DigitValue(digits[i], base) < 0
     THEN [ok |-> FALSE, exc |-> "ValueError"]
     ELSE [ok |-> TRUE,
           val |-> (IF signed /\ tok[1] = MINUS THEN -1 ELSE 1)
                   * DigitsValue(digits, base, 1, 0)]

\* int(b, base) for tokens over digits, letters, signs and whitespace:
\* whitespace around the literal is dropped before it is converted.
PyInt(tok, base) == Eager(Strip(tok), LAMBDA t : PyIntLiteral(t, base))

Contains(tok, b) == \E i \in 1..Len(tok) : tok[i] = b

\* Variant of parse_number: a token that does not parse yields 0.
parse_number_DefaultsToZero(nbr_str) ==
  LET r == IF Contains(nbr_str, PLUS) \/ Contains(nbr_str, MINUS)
           THEN PyInt(nbr_str, 10)
           ELSE PyInt(nbr_str, 16)
  IN IF r.ok THEN r ELSE [ok |-> TRUE, val |-> 0]

parse_number(nbr_str) ==
  IF Contains(nbr_str, PLUS) \/ Contains(nbr_str, MINUS)
  THEN PyInt(nbr_str, 10)
  ELSE PyInt(nbr_str, 16)

\* bytes.decode('ascii'): the same code points, or an error on a byte >= 128.
AsciiDecode(tok) ==
  IF \E i \in 1..Len(tok) : tok[i] >= 128
  THEN [ok |-> FALSE, exc |-> "UnicodeDecodeError"]
  ELSE [ok |-> TRUE, val |-> tok]

\* ------------------------------------------------------------ decode_datagram
\* The header assignments of decode_datagram in statement order: the field,
\* the index it reads and whether the token goes through parse_number (TRUE)
\* or .decode('ascii') (FALSE).
HeaderFields ==
  << [name |-> "TypeOfCommand",      idx |-> 0,  num |-> FALSE],
     [name |-> "Command",            idx |-> 1,  num |-> FALSE],
     [name |-> "VersionNumber",      idx |-> 2,  num |-> TRUE],
     [name |-> "DeviceNumber",       idx |-> 3,  num |-> TRUE],
     [name |-> "SerialNumber",       idx |-> 4,  num |-> FALSE],
     [name |-> "DeviceStatus1",      idx |-> 5,  num |-> TRUE],
     [name |-> "DeviceStatus2",      idx |-> 6,  num |-> TRUE],
     [name |-> "TelegramCounter",    idx |-> 7,  num |-> TRUE],
     [name |-> "TimeSinceStartup",   idx |-> 9,  num |-> TRUE],
     [name |-> "TimeOfTransmission", idx |-> 10, num |-> TRUE],
     [name |-> "AngularStepWidth",   idx |-> 24, num |-> TRUE],
     [name |-> "NumberOfData",       idx |-> 25, num |-> TRUE] >>

\* items[idx] followed by its conversion: IndexError when the list is too
\* short, otherwise the conversion's own outcome.
ParseField(items, f) ==
  IF f.idx >= Len(items) THEN [ok |-> FALSE, exc |-> "IndexError"]
  ELSE IF f.num THEN parse_number(items[f.idx + 1])
  ELSE AsciiDecode(items[f.idx + 1])

\* Position in HeaderFields of the first statement that raises, 0 if none.
FirstFailure(items) ==
  LET bad == { k \in 1..Len(HeaderFields) : ~ParseField(items, HeaderFields[k]).ok }
  IN IF bad = {} THEN 0 ELSE CHOOSE k \in bad : \A j \in bad : k <= j

\* The list comprehension of line 99 over items[26:26+NumberOfData]; each
\* element is parse_number(x) / 1000, held in thousandths.
ParseTokens(toks) ==
  IF \E i \in 1..Len(toks) : ~parse_number(toks[i]).ok
  THEN [ok |-> FALSE, exc |-> "ValueError"]
  ELSE [ok |-> TRUE, val |-> [i \in 1..Len(toks) |-> parse_number(toks[i]).val]]

ParseData(items, count) == Eager(PySlice(items, 26, 26 + count), ParseTokens)

\* Variant of GateRejects: the device status fields are not looked at.
GateRejects_IgnoresStatus(type, command, status1, status2) ==
  type # sSN \/ command # LMDscandata

\* if header['TypeOfCommand'] != 'sSN' or header['Command'] != 'LMDscandata'
\*    or header['DeviceStatus1'] != 0 or header['DeviceStatus2'] != 0
GateRejects(type, command, status1, status2) ==
  type # sSN \/ command # LMDscandata \/ status1 # 0 \/ status2 # 0

\* Result: [kind |-> "record", ...] (the header dict), None, or
\* [kind |-> "error", exc |-> ...] when an exception leaves the function.
DecodeItems(items) ==
  LET k == FirstFailure(items)
      val(j) == ParseField(items, HeaderFields[j]).val
  IN IF k # 0
     THEN [kind |-> "error", exc |-> ParseField(items, HeaderFields[k]).exc]
     ELSE LET data == ParseData(items, val(12))
          IN IF ~data.ok THEN [kind |-> "error", exc |-> data.exc]
             ELSE IF GateRejects(val(1), val(2), val(6), val(7))
             THEN None
             ELSE [kind |-> "record",
                   TypeOfCommand |-> val(1), Command |-> val(2),
                   VersionNumber |-> val(3), DeviceNumber |-> val(4),
                   SerialNumber |-> val(5), DeviceStatus1 |-> val(6),
                   DeviceStatus2 |-> val(7), TelegramCounter |-> val(8),
                   TimeSinceStartup |-> val(9), TimeOfTransmission |-> val(10),
                   AngularStepWidth |-> val(11), NumberOfData |-> val(12),
                   Data |-> data.val]

decode_datagram(datagram) == Eager(Split(datagram, SP), DecodeItems)

\* ------------------------------------------------------------------- filters
min_distance == 100       \* 0.1 m in thousandths
max_distance == 3000      \* 3 m in thousandths
Sentinel == -1000         \* the float -1 in thousandths
datagram_size == 811
sensor_angle == 270
RunViewAngle == 180

\* Variant of clean_datagram_by_distance: the lower bound is inclusive.
clean_datagram_by_distance_Inclusive(ds) ==
  LET a == [i \in 1..Len(ds) |-> IF ds[i] >= min_distance THEN ds[i] ELSE Sentinel]
  IN [i \in 1..Len(a) |-> IF a[i] < max_distance THEN a[i] ELSE Sentinel]

\* np.where(ds > min, ds, -1) then np.where(ds < max, ds, -1), elementwise.
clean_datagram_by_distance(ds) ==
  LET a == [i \in 1..Len(ds) |-> IF ds[i] > min_distance THEN ds[i] ELSE Sentinel]
  IN [i \in 1..Len(a) |-> IF a[i] < max_distance THEN a[i] ELSE Sentinel]

\* A view angle is held as the fraction num/den of a degree.
Degrees(n) == [num |-> n, den |-> 1]

\* int((datagram_size / sensor_angle) * (viewAngle / 2)): the product is
\* 811*num/(540*den), which for den <= 3 and 0 < viewAngle <= 270 is never
\* within rounding distance of an integer it does not equal, so the float
\* result truncates to the integer quotient.
cleanArraySize(viewAngle) ==
  (datagram_size * viewAngle.num) \div (2 * sensor_angle * viewAngle.den)

\* Variant of clean_datagram_by_angle: an even size does not move the start.
clean_datagram_by_angle_NoShift(ds, viewAngle) ==
  LET size == cleanArraySize(viewAngle)
      midpoint == Len(ds) \div 2
      start == midpoint - (size \div 2)
      end == start + size
  IN PySlice(ds, start, end)

clean_datagram_by_angle(ds, viewAngle) ==
  LET size == cleanArraySize(viewAngle)
      midpoint == Len(ds) \div 2
      start0 == midpoint - (size \div 2)
      start == IF size % 2 = 0 THEN start0 - 1 ELSE start0
      end == start + size
  IN PySlice(ds, start, end)

\* ----------------------------------------------------------------- Python call
\* def clean_datagram_by_angle(self, ds, viewAngle = 30): the parameters
\* after self and the ones that have a default.
AngleSignature == [params |-> << "ds", "viewAngle" >>, defaults |-> { "viewAngle" }]

\* Variant of RunAngleCall: the call passes the local ds as well.
RunAngleCall_PassesDs == [positional |-> << "ds" >>, keywords |-> { "viewAngle" }]

\* self.clean_datagram_by_angle(viewAngle=180) in run: the locals passed
\* positionally and the keywords given.
RunAngleCall == [positional |-> << >>, keywords |-> { "viewAngle" }]

\* Parameters a call leaves unbound; a non-empty set is a TypeError.
MissingArgs(sig, call) ==
  { sig.params[i] : i \in { j \in 1..Len(sig.params) :
                              /\ j > Len(call.positional)
                              /\ sig.params[j] \notin call.keywords
                              /\ sig.params[j] \notin sig.defaults } }

\* ------------------------------------------------------------ frame extractor
\* Variant of datagrams_step: the STX that ends the first loop is kept in the
\* datagram.
datagrams_step_KeepsStx(g, buf, byte) ==
  IF g = "hunt"
  THEN [genPc |-> IF byte = STX THEN "accum" ELSE "hunt",
        datagram |-> IF byte = STX THEN Append(buf, byte) ELSE buf, yield |-> FALSE]
  ELSE IF byte = ETX
       THEN [genPc |-> "idle", datagram |-> buf, yield |-> TRUE]
       ELSE [genPc |-> "accum", datagram |-> Append(buf, byte), yield |-> FALSE]

\* One byte through datagrams_from_socket: in "hunt" (first for loop) every
\* byte but STX is dropped; in "accum" (second for loop) every byte but ETX is
\* appended to datagram, and ETX yields it.
datagrams_step(g, buf, byte) ==
  IF g = "hunt"
  THEN [genPc |-> IF byte = STX THEN "accum" ELSE "hunt", datagram |-> buf, yield |-> FALSE]
  ELSE IF byte = ETX
       THEN [genPc |-> "idle", datagram |-> buf, yield |-> TRUE]
       ELSE [genPc |-> "accum", datagram |-> Append(buf, byte), yield |-> FALSE]

\* ------------------------------------------------------------------ telegrams
RECURSIVE Join(_)
Join(toks) ==
  IF Len(toks) = 0 THEN << >>
  ELSE IF Len(toks) = 1 THEN toks[1]
  ELSE toks[1] \o << SP >> \o Join(Tail(toks))

Tok0 == << 48 >>
Tok1 == << 49 >>
Tok2 == << 50 >>
Tok3 == << 51 >>
Tok1F4 == << 49, 70, 52 >>        \* 500 mm
TokFA0 == << 70, 65, 48 >>        \* 4000 mm
Tok64 == << 54, 52 >>             \* 100 mm
TokBB8 == << 66, 66, 56 >>        \* 3000 mm
SampleTokens == << Tok1F4, TokFA0, Tok64, TokBB8 >>

\* Token list of an LMDscandata telegram: 26 header tokens, then the samples.
ScanTokens(type, status1, count, samples) ==
  << type, LMDscandata, Tok1, Tok1, << 66, 50 >>, status1, Tok0, Tok2, Tok3,
     << 65, 49 >>, << 65, 50 >> >>
  \o [i \in 1..13 |-> Tok0]
  \o << << 49, 51, 56, 56 >>, count >>
  \o samples

ScanA == Join(ScanTokens(sSN, Tok0, Tok2, << Tok1F4, TokFA0 >>))
StatusBad == Join(ScanTokens(sSN, Tok1, Tok2, << Tok1F4, TokFA0 >>))
Reply == Join(<< sEA, LMDscandata, Tok1 >>)      \* answer to sEN LMDscandata 1
BadSample == Join(ScanTokens(sSN, Tok0, Tok1, << << 71 >> >>))
Telegrams == { ScanA, StatusBad, Reply, BadSample }

\* ---------------------------------------------------------------------- state
VARIABLES
  connected,      \* "no" before connect(), then "ok" or "failed"
  wire,           \* bytes the socket holds that the generator has not read
  genPc,          \* datagrams_generator: "none" (no attribute), "idle", "hunt", "accum"
  datagram,       \* the generator's local datagram
  closed,         \* the peer has closed the connection: recv returns b'' once drained
  pc,             \* position of the run thread
  frame,          \* run's local datagram
  decoded,        \* run's local decoded
  dsLocal,        \* run's local ds
  exc,            \* exception that ended the run thread, "" if none
  ds,             \* self.ds
  stop,           \* self.stop
  condition,      \* self.condition
  kpc,            \* position of the kill() call
  got,            \* value the last get() returned
  gotWant,        \* history: scan of the last completed publish at that get()
  lastPublished,  \* history: scan of the last completed publish
  lateNext,       \* history: frame retrievals started with stop set
  emptyReads,     \* history: recv calls that returned b'', counted up to 2
  stream,         \* extractor harness: the whole input stream
  frames,         \* extractor harness: frames yielded, with the position of their ETX
  arg,            \* function harness: the token or array passed
  argAngle,       \* function harness: the viewAngle passed
  result          \* function harness: the value returned

vars == << connected, wire, genPc, datagram, closed, pc, frame, decoded, dsLocal, exc,
           ds, stop, condition, kpc, got, gotWant, lastPublished, lateNext, emptyReads,
           stream, frames, arg, argAngle, result >>

sockVars == << connected, wire, genPc, datagram, closed >>
runVars == << pc, frame, decoded, dsLocal, exc >>
selfVars == << ds, stop, condition >>
callVars == << kpc, got, gotWant >>
histVars == << lastPublished, lateNext, emptyReads >>
harnessVars == << stream, frames >>
fnVars == << arg, argAngle, result >>

Unread == [kind |-> "unread"]
Unset == [kind |-> "unset"]
Array(a) == [kind |-> "array", val |-> a]

\* lidar.__init__
Init ==
  /\ connected = "no" /\ wire = << >> /\ genPc = "none" /\ datagram = << >>
  /\ closed = FALSE
  /\ pc = "new" /\ frame = << >> /\ decoded = Unset /\ dsLocal = << >> /\ exc = ""
  /\ ds = None /\ stop = FALSE /\ condition = FALSE
  /\ kpc = "idle" /\ got = Unread /\ gotWant = Unread
  /\ lastPublished = None /\ lateNext = 0 /\ emptyReads = 0
  /\ stream = << >> /\ frames = << >>
  /\ arg = << >> /\ argAngle = Unset /\ result = Unset

\* lidar.connect: on success the stream is activated, the generator object is
\* created and condition is set; on timeout or network error nothing is.
Connect ==
  /\ connected = "no"
  /\ \/ connected' = "ok" /\ genPc' = "idle" /\ condition' = TRUE
     \/ connected' = "failed" /\ UNCHANGED << genPc, condition >>
  /\ UNCHANGED << wire, datagram, closed, runVars, ds, stop, callVars, histVars,
                  harnessVars, fnVars >>

\* The sensor writes one telegram, framed by STX and ETX, to the connection.
Pending == Cardinality({ i \in 1..Len(wire) : wire[i] = ETX })

SensorSend ==
  /\ connected = "ok" /\ ~closed
  /\ Pending < MaxPending
  /\ \E t \in Telegrams : wire' = wire \o << STX >> \o t \o << ETX >>
  /\ UNCHANGED << connected, genPc, datagram, closed, runVars, selfVars, callVars, histVars,
                  harnessVars, fnVars >>

\* Thread.start(), called after connect() as in __main__.
Start ==
  /\ pc = "new" /\ connected # "no"
  /\ pc' = "sleep"
  /\ UNCHANGED << sockVars, frame, decoded, dsLocal, exc, selfVars, callVars, histVars, harnessVars, fnVars >>

\* run: time.sleep(3); print("Lidar started")
RunWake ==
  /\ pc = "sleep"
  /\ pc' = "check"
  /\ UNCHANGED << sockVars, frame, decoded, dsLocal, exc, selfVars, callVars, histVars, harnessVars, fnVars >>

\* Variant of RunCheck: the loop tests self.condition instead of self.stop.
RunCheck_TestsCondition ==
  /\ pc = "check"
  /\ pc' = IF condition THEN "stopped" ELSE "next"
  /\ UNCHANGED << sockVars, frame, decoded, dsLocal, exc, selfVars, callVars, histVars, harnessVars, fnVars >>

\* run: if self.stop: break
RunCheck ==
  /\ pc = "check"
  /\ pc' = IF stop THEN "stopped" ELSE "next"
  /\ UNCHANGED << sockVars, frame, decoded, dsLocal, exc, selfVars, callVars, histVars, harnessVars, fnVars >>

\* run: next(self.datagrams_generator) is entered; the generator resumes at
\* the top of its while loop (datagram = b'').  Without a successful
\* connect() the attribute does not exist and the lookup raises.
RunNext ==
  /\ pc = "next"
  /\ IF genPc = "none"
     THEN /\ pc' = "crashed" /\ exc' = "AttributeError"
          /\ UNCHANGED << genPc, datagram >>
     ELSE /\ pc' = "in_next" /\ genPc' = "hunt" /\ datagram' = << >>
          /\ UNCHANGED exc
  /\ lateNext' = IF stop /\ lateNext < 2 THEN lateNext + 1 ELSE lateNext
  /\ UNCHANGED << connected, wire, closed, frame, decoded, dsLocal, selfVars, callVars,
                  lastPublished, emptyReads, harnessVars, fnVars >>

\* run, inside next(): the generator takes one byte from the socket; on ETX
\* it yields and run's datagram is bound.  Blocks while the socket is empty.
RunNextByte ==
  /\ pc = "in_next" /\ wire # << >>
  /\ LET r == datagrams_step(genPc, datagram, Head(wire))
     IN /\ wire' = Tail(wire)
        /\ genPc' = r.genPc
        /\ datagram' = r.datagram
        /\ IF r.yield THEN pc' = "decode" /\ frame' = r.datagram
           ELSE UNCHANGED << pc, frame >>
  /\ UNCHANGED << connected, closed, decoded, dsLocal, exc, selfVars, callVars, histVars,
                  harnessVars, fnVars >>

\* Variant of RunDecode: a frame that decodes to None ends the loop.
RunDecode_NoneBreaks ==
  /\ pc = "decode"
  /\ \E r \in { decode_datagram(frame) } :
       IF r.kind = "error"
       THEN pc' = "crashed" /\ exc' = r.exc /\ UNCHANGED decoded
       ELSE /\ decoded' = r /\ UNCHANGED exc
            /\ pc' = IF r = None THEN "stopped" ELSE "distance"
  /\ UNCHANGED << sockVars, frame, dsLocal, selfVars, callVars, histVars, harnessVars, fnVars >>

\* run: decoded = decode_datagram(datagram); if decoded is not None
RunDecode ==
  /\ pc = "decode"
  /\ \E r \in { decode_datagram(frame) } :
       IF r.kind = "error"
       THEN pc' = "crashed" /\ exc' = r.exc /\ UNCHANGED decoded
       ELSE /\ decoded' = r /\ UNCHANGED exc
            /\ pc' = IF r = None THEN "check" ELSE "distance"
  /\ UNCHANGED << sockVars, frame, dsLocal, selfVars, callVars, histVars, harnessVars, fnVars >>

\* Variant of RunDistance: the distance-filtered array is stored in self.ds.
RunDistance_StoresSelf ==
  /\ pc = "distance"
  /\ dsLocal' = clean_datagram_by_distance(decoded.Data)
  /\ ds' = Array(dsLocal')
  /\ pc' = "angle"
  /\ UNCHANGED << sockVars, frame, decoded, exc, stop, condition, callVars, histVars, harnessVars, fnVars >>

\* run: ds = np.array(decoded['Data']); ds = self.clean_datagram_by_distance(ds)
RunDistance ==
  /\ pc = "distance"
  /\ dsLocal' = clean_datagram_by_distance(decoded.Data)
  /\ pc' = "angle"
  /\ UNCHANGED << sockVars, frame, decoded, exc, selfVars, callVars, histVars, harnessVars, fnVars >>

\* run: self.ds = self.clean_datagram_by_angle(viewAngle=180)
RunAngle ==
  /\ pc = "angle"
  /\ IF MissingArgs(AngleSignature, RunAngleCall) # {}
     THEN /\ pc' = "crashed" /\ exc' = "TypeError"
          /\ UNCHANGED << ds, lastPublished >>
     ELSE /\ ds' = Array(clean_datagram_by_angle(dsLocal, Degrees(RunViewAngle)))
          /\ lastPublished' =
               Array(clean_datagram_by_angle(clean_datagram_by_distance(decoded.Data),
                                             Degrees(RunViewAngle)))
          /\ pc' = "check" /\ UNCHANGED exc
  /\ UNCHANGED << sockVars, frame, decoded, dsLocal, stop, condition, callVars,
                  lateNext, emptyReads, harnessVars, fnVars >>

\* lidar.get
Get ==
  /\ got' = ds
  /\ gotWant' = lastPublished
  /\ UNCHANGED << sockVars, runVars, selfVars, kpc, histVars, harnessVars, fnVars >>

\* lidar.kill, first statement: self.condition = False
KillCondition ==
  /\ kpc = "idle"
  /\ condition' = FALSE /\ kpc' = "mid"
  /\ UNCHANGED << sockVars, runVars, ds, stop, got, gotWant, histVars, harnessVars, fnVars >>

\* Variant of KillStop: kill() also replaces the held scan by an empty array.
KillStop_ClearsScan ==
  /\ kpc = "mid"
  /\ stop' = TRUE /\ kpc' = "returned" /\ ds' = Array(<< >>)
  /\ UNCHANGED << sockVars, runVars, condition, got, gotWant, histVars, harnessVars, fnVars >>

\* lidar.kill, second statement: self.stop = True, and return
KillStop ==
  /\ kpc = "mid"
  /\ stop' = TRUE /\ kpc' = "returned"
  /\ UNCHANGED << sockVars, runVars, ds, condition, got, gotWant, histVars, harnessVars, fnVars >>

RunThread ==
  RunWake \/ RunCheck \/ RunNext \/ RunNextByte \/ RunDecode \/ RunDistance \/ RunAngle

Next ==
  \/ Connect \/ SensorSend \/ Start
  \/ RunWake \/ RunCheck \/ RunNext \/ RunNextByte \/ RunDecode \/ RunDistance \/ RunAngle
  \/ Get \/ KillCondition \/ KillStop

Spec == Init /\ [][Next]_vars

\* The scheduler runs the thread whenever it can take a step, and the sensor
\* keeps streaming while the connection has room.
SpecLive == Spec /\ WF_vars(RunThread) /\ WF_vars(SensorSend)

\* ------------------------------------------------- the peer closes the connection
\* The sensor closes the connection: what it sent stays readable, and once
\* that is read every recv returns b'' at once.
SensorClose ==
  /\ connected = "ok" /\ ~closed
  /\ closed' = TRUE
  /\ UNCHANGED << connected, wire, genPc, datagram, runVars, selfVars, callVars, histVars,
                  harnessVars, fnVars >>

\* run, inside next(), in bytes_from_socket: recv returns b'', the for loop
\* over data has nothing to yield and while True calls recv again.  Neither
\* generator returns, so next() does not either.
RunRecvEmpty ==
  /\ pc = "in_next" /\ wire = << >> /\ closed
  /\ emptyReads' = IF emptyReads < 2 THEN emptyReads + 1 ELSE emptyReads
  /\ UNCHANGED << sockVars, runVars, selfVars, callVars, lastPublished, lateNext,
                  harnessVars, fnVars >>

NextClose == Next \/ SensorClose \/ RunRecvEmpty

SpecClose == Init /\ [][NextClose]_vars

\* ------------------------------------------------- frame extractor on streams
\* A consumer that iterates datagrams_from_socket over a finite stream.
FrameBytes == { STX, ETX, 65, 66 }
Streams == UNION { [1..k -> FrameBytes] : k \in 0..MaxStream }

InitFrames ==
  /\ stream \in Streams /\ wire = stream /\ frames = << >>
  /\ connected = "ok" /\ genPc = "idle" /\ datagram = << >> /\ closed = FALSE
  /\ pc = "harness" /\ frame = << >> /\ decoded = Unset /\ dsLocal = << >> /\ exc = ""
  /\ ds = None /\ stop = FALSE /\ condition = TRUE
  /\ kpc = "idle" /\ got = Unread /\ gotWant = Unread
  /\ lastPublished = None /\ lateNext = 0 /\ emptyReads = 0
  /\ arg = << >> /\ argAngle = Unset /\ result = Unset

\* Variant of FramesNext: datagram is not emptied at the top of the loop.
FramesNext_KeepsBuffer ==
  /\ pc = "harness" /\ genPc = "idle"
  /\ genPc' = "hunt"
  /\ UNCHANGED << connected, wire, datagram, closed, runVars, selfVars, callVars, histVars,
                  harnessVars, fnVars >>

\* next(generator): resume at the top of the while loop.
FramesNext ==
  /\ pc = "harness" /\ genPc = "idle"
  /\ genPc' = "hunt" /\ datagram' = << >>
  /\ UNCHANGED << connected, wire, closed, runVars, selfVars, callVars, histVars,
                  harnessVars, fnVars >>

\* The generator takes the next byte of the stream.
FramesByte ==
  /\ pc = "harness" /\ genPc \in { "hunt", "accum" } /\ wire # << >>
  /\ LET r == datagrams_step(genPc, datagram, Head(wire))
     IN /\ wire' = Tail(wire)
        /\ genPc' = r.genPc
        /\ datagram' = r.datagram
        /\ frames' = IF r.yield
                     THEN Append(frames, [payload |-> r.datagram,
                                          at |-> Len(stream) - Len(wire) + 1])
                     ELSE frames
  /\ UNCHANGED << connected, closed, runVars, selfVars, callVars, histVars, stream, fnVars >>

NextFrames == FramesNext \/ FramesByte

SpecFrames == InitFrames /\ [][NextFrames]_vars

\* ------------------------------------------------- decode_datagram on frames
TokenPool ==
  { Tok0, Tok1, Tok2, << 70 >>, << 43, 50 >>, << 45, 49 >>, << 71 >>, << >>,
    << 49, 45 >>, << 200 >>, sSN, LMDscandata, sEA }
CountTokens == { Tok0, Tok2, << 52 >>, << 45, 49 >>, << 45, 50, 55 >> }
GateChanges == { << 0, sEA >>, << 1, sEA >>, << 5, Tok1 >>, << 6, Tok1 >> }

Samples(k) == [i \in 1..k |-> SampleTokens[((i - 1) % Len(SampleTokens)) + 1]]
BaseFrames == { ScanTokens(sSN, Tok0, c, Samples(k)) : c \in CountTokens, k \in 0..MaxSamples }

Replace(toks, idx, tok) == [i \in 1..Len(toks) |-> IF i = idx + 1 THEN tok ELSE toks[i]]

\* The token lists derived from one well-formed list: itself, one token
\* replaced, a gate field changed (and then one more token replaced when the
\* declared count is 2), and every proper prefix of those.
OneChange(b) == { Replace(b, i, t) : i \in 0..(Len(b) - 1), t \in TokenPool }
GateChange(b) == { Replace(b, g[1], g[2]) : g \in GateChanges }
Truncations(b) == { SubSeq(b, 1, n) : n \in 0..(Len(b) - 1) }
Variants(b) ==
  { b } \cup OneChange(b) \cup GateChange(b) \cup Truncations(b)
  \cup UNION { Truncations(g) : g \in GateChange(b) }
  \cup (IF b[26] = Tok2 THEN UNION { OneChange(g) : g \in GateChange(b) } ELSE {})

InitDecode ==
  /\ \/ \E b \in BaseFrames : \E toks \in Variants(b) : frame = Join(toks)
     \/ frame \in Telegrams
  /\ pc = "decode"
  /\ connected = "ok" /\ wire = << >> /\ genPc = "idle" /\ datagram = frame
  /\ closed = FALSE
  /\ decoded = Unset /\ dsLocal = << >> /\ exc = ""
  /\ ds = None /\ stop = FALSE /\ condition = TRUE
  /\ kpc = "idle" /\ got = Unread /\ gotWant = Unread
  /\ lastPublished = None /\ lateNext = 0 /\ emptyReads = 0
  /\ stream = << >> /\ frames = << >>
  /\ arg = << >> /\ argAngle = Unset /\ result = Unset

SpecDecode == InitDecode /\ [][RunDecode]_vars

\* ------------------------------------------------- parse_number on tokens
\* Tokens over a tab, the two signs, two decimal digits and a hex letter.
ParseBytes == { 9, PLUS, MINUS, 50, 52, 65 }
NumberTokens == UNION { [1..k -> ParseBytes] : k \in 0..MaxToken }

InitParse ==
  /\ arg \in NumberTokens /\ argAngle = Unset /\ result = Unset
  /\ pc = "parse"
  /\ connected = "no" /\ wire = << >> /\ genPc = "none" /\ datagram = << >>
  /\ closed = FALSE
  /\ frame = << >> /\ decoded = Unset /\ dsLocal = << >> /\ exc = ""
  /\ ds = None /\ stop = FALSE /\ condition = FALSE
  /\ kpc = "idle" /\ got = Unread /\ gotWant = Unread
  /\ lastPublished = None /\ lateNext = 0 /\ emptyReads = 0
  /\ stream = << >> /\ frames = << >>

\* result = parse_number(arg)
CallParseNumber ==
  /\ pc = "parse"
  /\ result' = parse_number(arg)
  /\ pc' = "returned"
  /\ UNCHANGED << sockVars, frame, decoded, dsLocal, exc, selfVars, callVars, histVars,
                  harnessVars, arg, argAngle >>

SpecParse == InitParse /\ [][CallParseNumber]_vars

\* ------------------------------------- clean_datagram_by_distance on arrays
\* Distances in thousandths of a metre: below, at and just above the lower
\* bound, inside, just below, at and above the upper bound, and the sentinel.
DistanceValues == { 50, min_distance, min_distance + 1, 500, 1500,
                    max_distance - 1, max_distance, 5000, Sentinel }
DistanceArrays == UNION { [1..k -> DistanceValues] : k \in 0..MaxArray }

InitDistance ==
  /\ arg \in DistanceArrays /\ argAngle = Unset /\ result = Unset
  /\ pc = "call"
  /\ connected = "no" /\ wire = << >> /\ genPc = "none" /\ datagram = << >>
  /\ closed = FALSE
  /\ frame = << >> /\ decoded = Unset /\ dsLocal = << >> /\ exc = ""
  /\ ds = None /\ stop = FALSE /\ condition = FALSE
  /\ kpc = "idle" /\ got = Unread /\ gotWant = Unread
  /\ lastPublished = None /\ lateNext = 0 /\ emptyReads = 0
  /\ stream = << >> /\ frames = << >>

\* result = clean_datagram_by_distance(arg): np.where builds new arrays and
\* ds is rebound to them, so the caller's array keeps its elements.
CallDistance ==
  /\ pc = "call"
  /\ result' = clean_datagram_by_distance(arg)
  /\ pc' = "returned"
  /\ UNCHANGED << sockVars, frame, decoded, dsLocal, exc, selfVars, callVars, histVars,
                  harnessVars, arg, argAngle >>

SpecDistance == InitDistance /\ [][CallDistance]_vars

\* --------------------------------------- clean_datagram_by_angle on a scan
\* A scan of datagram_size elements, each holding its own index, and every
\* view angle of the grid above 0 up to the sensor's angle.
IndexArray == [i \in 1..datagram_size |-> i - 1]
ViewAngles == { [num |-> k, den |-> AngleDen] : k \in 1..(sensor_angle * AngleDen) }

InitAngle ==
  /\ arg = IndexArray /\ argAngle \in ViewAngles /\ result = Unset
  /\ pc = "call"
  /\ connected = "no" /\ wire = << >> /\ genPc = "none" /\ datagram = << >>
  /\ closed = FALSE
  /\ frame = << >> /\ decoded = Unset /\ dsLocal = << >> /\ exc = ""
  /\ ds = None /\ stop = FALSE /\ condition = FALSE
  /\ kpc = "idle" /\ got = Unread /\ gotWant = Unread
  /\ lastPublished = None /\ lateNext = 0 /\ emptyReads = 0
  /\ stream = << >> /\ frames = << >>

\* result = clean_datagram_by_angle(arg, viewAngle = argAngle)
CallAngle ==
  /\ pc = "call"
  /\ result' = clean_datagram_by_angle(arg, argAngle)
  /\ pc' = "returned"
  /\ UNCHANGED << sockVars, frame, decoded, dsLocal, exc, selfVars, callVars, histVars,
                  harnessVars, arg, argAngle >>

SpecAngle == InitAngle /\ [][CallAngle]_vars

\* ===================================================================== claims
Filtered(samples) ==
  Array(clean_datagram_by_angle(clean_datagram_by_distance(samples), Degrees(RunViewAngle)))
Terminated == pc \in { "stopped", "crashed" }

\* ---- properties of a frame as the protocol describes it
RequiredTokens == 26
NumericIndices == { 2, 3, 5, 6, 7, 9, 10, 24, 25 }
Tokens(f) == Split(f, SP)
IsDecDigit(b) == b >= 48 /\ b <= 57
IsHexDigit(b) == IsDecDigit(b) \/ (b >= 65 /\ b <= 70) \/ (b >= 97 /\ b <= 102)
\* A signed token is base 10, any other token is base 16.
ValidNumberToken(tok) ==
  /\ Len(tok) > 0
  /\ IF tok[1] \in { PLUS, MINUS }
     THEN Len(tok) > 1 /\ \A i \in 2..Len(tok) : IsDecDigit(tok[i])
     ELSE \A i \in 1..Len(tok) : IsHexDigit(tok[i])
NumberOf(tok) ==
  IF tok[1] = MINUS THEN 0 - DigitsValue(Tail(tok), 10, 1, 0)
  ELSE IF tok[1] = PLUS THEN DigitsValue(Tail(tok), 10, 1, 0)
  ELSE DigitsValue(tok, 16, 1, 0)
\* The predicates below take the token list Tokens(f) of a frame f.
TooShort(toks) == Len(toks) < RequiredTokens
BadNumericField(toks) ==
  \E i \in NumericIndices : i < Len(toks) /\ ~ValidNumberToken(toks[i + 1])
Malformed(toks) == TooShort(toks) \/ BadNumericField(toks)

\* C1: every frame decode_datagram accepts is followed by a publish: on
\* leaving the publish statement the held scan is the angle filter of the
\* distance filter of the decoded samples and the loop is back at its stop
\* check.
C1_AcceptedFrameIsPublished ==
  [][(pc = "angle" /\ pc' # "angle")
       => (ds' = Filtered(decoded.Data) /\ pc' = "check")]_vars

\* C2: every get() returns None when no publish has completed, and otherwise
\* the complete filtered scan of the most recently completed publish.
C2_GetReturnsLastPublished == got # Unread => got = gotWant

\* C2 witness: a get() answered None while the producer held a
\* distance-filtered array it had not yet angle-filtered.
C2_Witness == got = None /\ pc = "angle" /\ dsLocal # << >>

\* C3: a malformed frame does not end the loop: the frame is skipped, the held
\* scan is unchanged and the loop returns to its stop check.
C3_MalformedFrameSkipped ==
  [][(pc = "decode" /\ pc' # "decode")
       => \A toks \in { Tokens(frame) } :
            Malformed(toks) => (pc' = "check" /\ ds' = ds)]_vars

Consumed == Len(stream) - Len(wire)
Delimiter(b) == b = STX \/ b = ETX
\* stream[i] .. stream[j] is 0x02, a payload free of delimiters, 0x03.
WellFormedAt(i, j) ==
  /\ i < j /\ stream[i] = STX /\ stream[j] = ETX
  /\ \A m \in (i + 1)..(j - 1) : ~Delimiter(stream[m])
\* Every 0x02 before position i is followed, before i, by a 0x03.
ClosedBefore(i) ==
  \A m \in 1..(i - 1) : stream[m] = STX => \E n \in (m + 1)..(i - 1) : stream[n] = ETX
Payload(i, j) == SubSeq(stream, i + 1, j - 1)

C7_NoDelimiterInFrame ==
  \A k \in 1..Len(frames) :
    \A m \in 1..Len(frames[k].payload) : ~Delimiter(frames[k].payload[m])

\* ---- the validity gate and the declared count, read off the tokens
GateFails(toks) ==
  \/ toks[1] # sSN
  \/ Len(toks) > 1 /\ toks[2] # LMDscandata
  \/ \E i \in { 5, 6 } : /\ i < Len(toks)
                        /\ ValidNumberToken(toks[i + 1])
                        /\ NumberOf(toks[i + 1]) # 0
Decoded == pc # "decode"
HasCount(toks) == ~TooShort(toks) /\ ValidNumberToken(toks[26])
DeclaredCount(toks) == NumberOf(toks[26])
SamplesPresent(toks) == Len(toks) - RequiredTokens
\* A token at one of the declared sample positions 26 .. 26+N-1 is not a number.
BadSampleToken(toks) ==
  /\ HasCount(toks)
  /\ \E i \in 26..(26 + DeclaredCount(toks) - 1) :
       i < Len(toks) /\ ~ValidNumberToken(toks[i + 1])

\* C8: a frame that fails the validity gate decodes to None, neither a record
\* nor an error.
C8_GateFailureGivesNone ==
  Decoded => \A toks \in { Tokens(frame) } :
               GateFails(toks) => (pc = "check" /\ decoded = None)

\* C9: a returned record has as many samples as its declared count, and a
\* declared count above the number of sample tokens present is an error.
C9_DataLengthIsDeclaredCount ==
  /\ (Decoded /\ decoded # Unset /\ decoded # None)
       => Len(decoded.Data) = decoded.NumberOfData
  /\ Decoded => \A toks \in { Tokens(frame) } :
                  (HasCount(toks) /\ DeclaredCount(toks) > SamplesPresent(toks))
                    => pc = "crashed"

LeadingSign(tok) == Len(tok) > 0 /\ tok[1] \in { PLUS, MINUS }
Returned == pc = "returned"

\* C11: parse_number converts a token in base 10 exactly when its first byte
\* is '+' or '-' and in base 16 in every other case; b"+42" and b"2A" both
\* give 42.
C11_LeadingSignSelectsBase ==
  Returned =>
    /\ result = (IF LeadingSign(arg) THEN PyInt(arg, 10) ELSE PyInt(arg, 16))
    /\ arg = << PLUS, 52, 50 >> => result = [ok |-> TRUE, val |-> 42]
    /\ arg = << 50, 65 >> => result = [ok |-> TRUE, val |-> 42]

\* ---- a sample token as the protocol describes it: unsigned hex millimetres
IsUnsignedHex(tok) == Len(tok) > 0 /\ \A i \in 1..Len(tok) : IsHexDigit(tok[i])
HexValue(tok) == DigitsValue(tok, 16, 1, 0)
IsRecord(d) == d # Unset /\ d # None

\* C12: in a returned record with declared count N, sample i (0 <= i < N) is
\* token 26+i read as unsigned hexadecimal millimetres, in token order; no
\* sample token is read as a signed decimal.  Stated for the samples the
\* record has (C9 is about their number).
C12_SamplesAreHexMillimetres ==
  (Decoded /\ IsRecord(decoded)) =>
    \A toks \in { Tokens(frame) } :
      \A i \in 1..Min(decoded.NumberOfData, Len(decoded.Data)) :
        /\ IsUnsignedHex(toks[26 + i])
        /\ decoded.Data[i] = HexValue(toks[26 + i])

\* C13: clean_datagram_by_distance returns an array of the input's length
\* whose element i is the input's when min_distance < v < max_distance, both
\* strict, and -1 otherwise, a value equal to a bound included; the input
\* array keeps its elements; [0.05, 0.5, 1.5, 5.0] gives [-1, 0.5, 1.5, -1].
C13_DistanceKeepsOpenInterval ==
  /\ [](Returned =>
          /\ Len(result) = Len(arg)
          /\ \A i \in 1..Len(arg) :
               result[i] = IF min_distance < arg[i] /\ arg[i] < max_distance
                           THEN arg[i] ELSE Sentinel
          /\ arg = << 50, 500, 1500, 5000 >>
               => result = << Sentinel, 500, 1500, Sentinel >>)
  /\ [][arg' = arg]_vars

\* C13 witness: the filter returned for an array holding both bounds and a
\* value strictly between them.
C13_Witness ==
  /\ Returned
  /\ \E i \in 1..Len(arg) : arg[i] = min_distance /\ result[i] = Sentinel
  /\ \E i \in 1..Len(arg) : arg[i] = max_distance /\ result[i] = Sentinel
  /\ \E i \in 1..Len(arg) : arg[i] = 1500 /\ result[i] = 1500

\* ---- the window of the angle filter as it is described
\* floor((811/270) * (V/2)) for V = num/den
WindowSize(a) == (811 * a.num) \div (540 * a.den)
WindowStart(len, w) == (len \div 2) - (w \div 2) - (IF w % 2 = 0 THEN 1 ELSE 0)
IsDegrees(a, n) == a.num = n * a.den

\* C14: for a scan of 811 samples and a view angle V, 0 < V <= 270, the
\* angle filter returns the slice [start, end) with w = floor((811/270)*(V/2)),
\* start = 811 div 2 - w div 2, one less when w is even, end = start + w; the
\* slice lies inside the scan and has exactly w elements, 270 for V = 180.
C14_AngleWindowInsideScan ==
  Returned =>
    \A w \in { WindowSize(argAngle) } : \A start \in { WindowStart(Len(arg), w) } :
      /\ Len(arg) = 811
      /\ 0 <= start /\ start + w <= Len(arg)
      /\ Len(result) = w
      /\ \A i \in 1..w : result[i] = arg[start + i]
      /\ IsDegrees(argAngle, 180) => w = 270

\* C14 witness: the filter returned the 270 samples 269 .. 538 for V = 180.
C14_Witness ==
  /\ Returned /\ IsDegrees(argAngle, 180)
  /\ Len(result) = 270 /\ result[1] = arg[270] /\ result[270] = arg[539]

\* C15: when the byte source has ended (recv returned b''), extraction
\* stops and the ingestion loop ends without an error: it does not stay
\* inside next(), waiting or reading again.
C15_SourceEndStopsLoop ==
  emptyReads > 0 => (pc = "stopped" /\ exc = "")

\* C16: when decode_datagram returns None for a frame, the iteration
\* publishes nothing: the held scan is unchanged, no exception ends the
\* loop, and the loop is back at its stop check, from where it goes on to
\* the next frame.
C16_NoneFrameSkipped ==
  [][(pc = "decode" /\ pc' # "decode")
       => \A r \in { decode_datagram(frame) } :
            r = None => /\ ds' = ds /\ lastPublished' = lastPublished
                        /\ exc' = "" /\ pc' = "check"]_vars

\* C16 witness: after a telegram with a non-zero device status decoded to
\* None, the loop passed its stop check and is retrieving the next frame.
C16_Witness ==
  /\ frame = StatusBad /\ decoded = None
  /\ pc = "in_next" /\ exc = "" /\ ds = None

\* C17: whenever the window length w is at least 1, even or odd, the window
\* the angle filter returns includes the scan's midpoint sample, the one at
\* index len(ds) div 2.
C17_WindowHoldsMidpoint ==
  (Returned /\ WindowSize(argAngle) >= 1)
    => \E i \in 1..Len(result) : result[i] = arg[(Len(arg) \div 2) + 1]

\* C18: a scan is held only as the result of a frame with command type sSN,
\* command name LMDscandata and both device statuses zero: only such a frame
\* takes the loop from decoding to its filters, and the held scan changes
\* nowhere but at the publish statement that ends them.
C18_HeldScanFromValidFrame ==
  [][/\ (pc = "decode" /\ pc' = "distance")
          => \A toks \in { Tokens(frame) } : ~GateFails(toks)
     /\ ds' # ds => (pc = "angle" /\ frame' = frame)]_vars

\* C18 witness: the loop stands at its publish statement with the filtered
\* samples of a frame that passed the gate.
C18_Witness ==
  /\ pc = "angle" /\ frame = ScanA /\ IsRecord(decoded)
  /\ decoded.DeviceStatus1 = 0 /\ decoded.DeviceStatus2 = 0
  /\ dsLocal = << 500, Sentinel >>

\* C19: a get() changes neither the held scan, nor the stop and condition
\* flags, nor the frame extractor's position, and returns the last published
\* scan; a step of kill() changes the stop and condition flags only; the held
\* scan changes only in a step of the ingestion loop, at its publish
\* statement.
C19_GetAndKillLeaveScan ==
  [][/\ (got' # got \/ gotWant' # gotWant)
          => /\ UNCHANGED << ds, stop, condition, sockVars, runVars >>
             /\ got' = lastPublished
     /\ kpc' # kpc => UNCHANGED << ds, sockVars, runVars, got >>
     /\ ds' # ds => (pc = "angle" /\ pc' # pc /\ kpc' = kpc /\ got' = got)]_vars

\* C19 witness: kill() has returned, both flags are changed, the loop is
\* still running and a get() was answered with the held scan.
C19_Witness ==
  /\ kpc = "returned" /\ stop /\ ~condition
  /\ got = ds /\ got = lastPublished
  /\ pc \in { "check", "in_next", "decode" }

\* ---- where a yielded frame lies in the stream
\* Position just after the frame yielded before frame k (1 for the first).
FrameFloor(k) == IF k = 1 THEN 1 ELSE frames[k - 1].at + 1

\* C20: the extractor consumes the stream in order, each byte once; every
\* frame is yielded on consuming a 0x03 that follows a 0x02, frames come in
\* the order of their 0x03, each frame is the contiguous run of stream bytes
\* between that 0x02 and that 0x03, and the runs of two frames do not overlap.
C20_FramesAreOrderedDisjointRuns ==
  /\ wire = SubSeq(stream, Consumed + 1, Len(stream))
  /\ \A k \in 1..Len(frames) :
       /\ frames[k].at <= Consumed
       /\ stream[frames[k].at] = ETX
       /\ \E i \in FrameFloor(k)..(frames[k].at - 1) :
            /\ stream[i] = STX
            /\ frames[k].payload = SubSeq(stream, i + 1, frames[k].at - 1)

\* C20 witness: two frames were yielded and the second one is not empty.
C20_Witness ==
  /\ Len(frames) = 2 /\ frames[2].payload # << >>
  /\ frames[1].at < frames[2].at - Len(frames[2].payload)

====
